---------------------------- MODULE Spec2Model ----------------------------
(***************************************************************************)
(* A model of power_monitor.py: the PowerMonitor class (the RAPL power     *)
(* estimator, one collection round, the CSV writer, the monitoring loop)   *)
(* and main().                                                             *)
(*                                                                         *)
(* Units.  TLC's integers are 32 bits wide, the program's are not, so the  *)
(* model counts energy in units of 2^UnitBits microjoules and time in      *)
(* clock ticks of 1/TicksPerSecond seconds.  A power value is the exact    *)
(* rational number of watts, kept as a reduced fraction [num, den]: the    *)
(* rounding of Python's floats is not modelled.                            *)
(*                                                                         *)
(* An optional value (Python's None or a value) is <<>> or <<v>>.          *)
(*                                                                         *)
(* The machine.  The clock never steps back during a run, time.sleep lasts *)
(* exactly the interval, reading the counter takes no time, and the output *)
(* file can be written.  SIGINT may arrive between any two steps of run.   *)
(***************************************************************************)
EXTENDS Integers, Sequences, FiniteSets, TLC

None == <<>>
Some(v) == <<v>>
Val(o) == o[1]

\* ------------------------------------------------------------------------
\* Units and program constants

\* energy_uj is read in microjoules; one model unit is 2^UnitBits of them
UnitBits == 20
UJPerUnit == 2^UnitBits
\* time.time() is in seconds; one model tick is 1/TicksPerSecond second
TicksPerSecond == 2
\* max_counter = 2**32 microjoules, in model units
MaxCounter == 2^(32 - UnitBits)
\* the divisor 1_000_000 of the conversion to watts
Million == 1000000
\* timeout=5 (seconds) of the ipmitool call
IpmiTimeoutS == 5
\* the status of a process ended by an uncaught KeyboardInterrupt (128 + SIGINT)
ExitInterrupted == 128 + 2

\* ------------------------------------------------------------------------
\* Bounds of the model

\* direct calls of calculate_rapl_power made on one fresh monitor
MaxCalls == 3
\* the largest timestamp such a call is given
MaxTimestamp == 3
\* a run without a duration starts no tick once the clock shows MaxClock
MaxClock == 4

\* ------------------------------------------------------------------------
\* Exact rational arithmetic

Abs(x) == IF x < 0 THEN -x ELSE x

RECURSIVE GCD(_, _)
GCD(a, b) == IF b = 0 THEN a ELSE GCD(b, a % b)

\* the fraction n/d with d > 0, reduced
Frac(n, d) ==
    LET g == GCD(Abs(n), d)
    IN  [num |-> n \div g, den |-> d \div g]

\* watts per (energy unit / clock tick), as the reduced fraction ScaleNum/ScaleDen
ScaleNum == (UJPerUnit * TicksPerSecond) \div GCD(UJPerUnit * TicksPerSecond, Million)
ScaleDen == Million \div GCD(UJPerUnit * TicksPerSecond, Million)

\* ------------------------------------------------------------------------
\* PowerMonitor.calculate_rapl_power

\* energy_delta_uj with a rollover test that also fires on an unchanged counter
EnergyDelta_RolloverOnZero(prev_energy, energy_uj) ==
    LET d == energy_uj - prev_energy
    IN  IF d <= 0 THEN d + MaxCounter ELSE d

\* energy_delta_uj: the difference, plus max_counter when it is negative
EnergyDelta(prev_energy, energy_uj) ==
    LET d == energy_uj - prev_energy
    IN  IF d < 0 THEN d + MaxCounter ELSE d

\* time_delta_s, in clock ticks
TimeDelta(prev_time, timestamp) == timestamp - prev_time

\* power_w = (energy_delta_uj / time_delta_s) / 1_000_000, for time_delta_s > 0
PowerW(energy_delta, time_delta) ==
    Frac(energy_delta * ScaleNum, time_delta * ScaleDen)

\* the return with a guard against a zero time delta only: a negative delta
\* is divided by like any other
PowerOrNone_ZeroGuardOnly(energy_delta, time_delta) ==
    IF time_delta = 0 THEN None
    ELSE IF time_delta < 0 THEN Some(PowerW(-energy_delta, -time_delta))
    ELSE Some(PowerW(energy_delta, time_delta))

\* the value returned once a previous sample exists
PowerOrNone(energy_delta, time_delta) ==
    IF time_delta <= 0 THEN None ELSE Some(PowerW(energy_delta, time_delta))

\* the estimator with the first sample dropped instead of stored
calculate_rapl_power_FirstNotStored(prev_energy, prev_time, energy_uj, timestamp) ==
    IF prev_energy = None
    THEN [prev_energy |-> None, prev_time |-> None, ret |-> None]
    ELSE [prev_energy |-> Some(energy_uj), prev_time |-> Some(timestamp),
          ret |-> PowerOrNone(EnergyDelta(Val(prev_energy), energy_uj),
                              TimeDelta(Val(prev_time), timestamp))]

\* the estimator with the time-delta guard moved before the store
calculate_rapl_power_GuardBeforeStore(prev_energy, prev_time, energy_uj, timestamp) ==
    IF prev_energy = None
    THEN [prev_energy |-> Some(energy_uj), prev_time |-> Some(timestamp), ret |-> None]
    ELSE IF TimeDelta(Val(prev_time), timestamp) <= 0
    THEN [prev_energy |-> prev_energy, prev_time |-> prev_time, ret |-> None]
    ELSE [prev_energy |-> Some(energy_uj), prev_time |-> Some(timestamp),
          ret |-> PowerOrNone(EnergyDelta(Val(prev_energy), energy_uj),
                              TimeDelta(Val(prev_time), timestamp))]

\* one whole call: the new prev_rapl_energy and prev_rapl_time, and the result
calculate_rapl_power(prev_energy, prev_time, energy_uj, timestamp) ==
    IF prev_energy = None
    THEN [prev_energy |-> Some(energy_uj), prev_time |-> Some(timestamp), ret |-> None]
    ELSE [prev_energy |-> Some(energy_uj), prev_time |-> Some(timestamp),
          ret |-> PowerOrNone(EnergyDelta(Val(prev_energy), energy_uj),
                              TimeDelta(Val(prev_time), timestamp))]

\* ------------------------------------------------------------------------
\* State

VARIABLES
    \* the PowerMonitor object
    prev_rapl_energy,   \* self.prev_rapl_energy
    prev_rapl_time,     \* self.prev_rapl_time
    running,            \* self.running
    measurements,       \* self.measurements
    \* the command line and the machine
    cfg,                \* args: duration (optional), interval, output_file (given or not)
    iface,              \* what _check_interfaces finds
    env,                \* what the two sources can answer in this run
    now,                \* time.time(), in clock ticks
    file,               \* the output file: absent, or its rows so far
    exit_code,          \* the process's exit status, once it has exited
    \* control
    pc,                 \* the statement main/run/take_measurement is at
    phase,              \* which call of take_measurement is running
    pending,            \* an exception is waiting for the finally block to end
    \* locals of run
    start_time, measurement_count, initial, measurement,
    \* locals of take_measurement
    timestamp, ipmi_power, rapl_energy, rapl_power,
    \* locals of calculate_rapl_power
    energy_delta_uj, time_delta_s,
    \* history, read by the properties only
    calls,              \* direct calls of the estimator: [energy, timestamp, ret]
    obs,                \* what the sources answered in the round under way
    collected,          \* the samples the Sampling rounds returned, in order
    intr_log            \* the part of run each external interrupt was delivered in

obj_vars == <<prev_rapl_energy, prev_rapl_time, running, measurements>>
world_vars == <<cfg, iface, env, now, file, exit_code>>
ctl_vars == <<pc, phase, pending>>
run_locals == <<start_time, measurement_count, initial, measurement>>
tm_locals == <<timestamp, ipmi_power, rapl_energy, rapl_power>>
crp_locals == <<energy_delta_uj, time_delta_s>>
hist_vars == <<calls, obs, collected, intr_log>>

vars == <<obj_vars, world_vars, ctl_vars, run_locals, tm_locals, crp_locals, hist_vars>>

\* ------------------------------------------------------------------------
\* The machine: what the two sources can answer

IpmiTimeout == IpmiTimeoutS * TicksPerSecond

\* read_ipmi_power: the ways one call of ipmitool can end, with the watts it
\* yields and the time it takes
IpmiOk(latency) == [kind |-> "ok", watts |-> Some(100), latency |-> latency]
IpmiNonZeroExit == [kind |-> "nonzero_exit", watts |-> None, latency |-> 0]
IpmiUnparsable == [kind |-> "unparsable", watts |-> None, latency |-> 0]
IpmiTimedOut == [kind |-> "timeout", watts |-> None, latency |-> IpmiTimeout]
IpmiError == [kind |-> "error", watts |-> None, latency |-> 0]

\* read_rapl_energy: the counter's value, or None when the read fails
RichEnv ==
    [ipmi |-> {IpmiOk(0), IpmiOk(1), IpmiNonZeroExit, IpmiUnparsable, IpmiTimedOut, IpmiError},
     rapl |-> {None, Some(0), Some(1)}]

\* both sources answer, the out-of-band one within less than a second
QuietEnv ==
    [ipmi |-> {IpmiOk(0), IpmiOk(1)},
     rapl |-> {Some(1)}]

\* the state __init__ leaves, before _check_interfaces
Fresh ==
    /\ prev_rapl_energy = None
    /\ prev_rapl_time = None
    /\ running = FALSE
    /\ measurements = <<>>
    /\ now = 0
    /\ file = None
    /\ exit_code = None
    /\ pc = "main"
    /\ phase = "none"
    /\ pending = FALSE
    /\ start_time = None
    /\ measurement_count = None
    /\ initial = None
    /\ measurement = None
    /\ timestamp = None
    /\ ipmi_power = None
    /\ rapl_energy = None
    /\ rapl_power = None
    /\ energy_delta_uj = None
    /\ time_delta_s = None
    /\ calls = <<>>
    /\ obs = None
    /\ collected = <<>>
    /\ intr_log = <<>>

Interfaces ==
    [ipmitool : {"found", "missing", "error"}, rapl_exists : BOOLEAN, rapl_readable : BOOLEAN]

\* a short run, or one without a duration, on a machine whose reads may fail
Init ==
    /\ Fresh
    /\ cfg \in [duration : {None, Some(0), Some(TicksPerSecond + 1)},
                interval : {TicksPerSecond},
                output_file : BOOLEAN]
    /\ iface \in Interfaces
    /\ env = RichEnv

\* --duration 5 --interval 1 on a machine whose reads succeed
TimedInit ==
    /\ Fresh
    /\ cfg \in [duration : {Some(5 * TicksPerSecond)},
                interval : {TicksPerSecond},
                output_file : BOOLEAN]
    /\ iface \in Interfaces
    /\ env = QuietEnv

\* ------------------------------------------------------------------------
\* main and PowerMonitor._check_interfaces

\* the errors collected with the read test of the counter left out
InterfaceErrors_PermissionIgnored ==
    (IF iface.ipmitool = "missing" THEN {"ipmitool not found in PATH"} ELSE {})
    \cup (IF iface.ipmitool = "error" THEN {"Error checking ipmitool"} ELSE {})
    \cup (IF ~iface.rapl_exists THEN {"RAPL interface not found"} ELSE {})

\* the errors _check_interfaces collects
InterfaceErrors ==
    (IF iface.ipmitool = "missing" THEN {"ipmitool not found in PATH"} ELSE {})
    \cup (IF iface.ipmitool = "error" THEN {"Error checking ipmitool"} ELSE {})
    \cup (IF ~iface.rapl_exists THEN {"RAPL interface not found"} ELSE {})
    \cup (IF iface.rapl_exists /\ ~iface.rapl_readable
          THEN {"Permission denied reading RAPL"} ELSE {})

\* monitor = PowerMonitor(...): sys.exit(1) when an interface is missing
CheckInterfaces ==
    /\ pc = "main"
    /\ IF InterfaceErrors # {}
       THEN /\ exit_code' = Some(1)
            /\ pc' = "exited"
       ELSE /\ exit_code' = exit_code
            /\ pc' = "run_227"
    /\ UNCHANGED <<obj_vars, cfg, iface, env, now, file, phase, pending, run_locals,
                   tm_locals, crp_locals, hist_vars>>

\* ------------------------------------------------------------------------
\* PowerMonitor.take_measurement, read_ipmi_power, read_rapl_energy

\* strftime('%Y-%m-%d %H:%M:%S.%f')[:-3]: the time of day to the millisecond
FormatTimestamp(t) == [ms |-> (t * 1000) \div TicksPerSecond]

\* timestamp = time.time()
TmTimestamp ==
    /\ pc = "tm_173"
    /\ timestamp' = Some(now)
    /\ obs' = Some([prev_energy |-> prev_rapl_energy, prev_time |-> prev_rapl_time,
                    ipmi |-> None, rapl |-> None])
    /\ pc' = "tm_177"
    /\ UNCHANGED <<obj_vars, world_vars, phase, pending, run_locals, ipmi_power,
                   rapl_energy, rapl_power, crp_locals, calls, collected, intr_log>>

\* ipmi_power = self.read_ipmi_power(): every failure yields None
TmIpmi ==
    /\ pc = "tm_177"
    /\ \E r \in env.ipmi :
         /\ ipmi_power' = r.watts
         /\ now' = now + r.latency
         /\ obs' = Some([Val(obs) EXCEPT !.ipmi = Some(r)])
    /\ pc' = "tm_180"
    /\ UNCHANGED <<obj_vars, cfg, iface, env, file, exit_code, phase, pending, run_locals,
                   timestamp, rapl_energy, rapl_power, crp_locals, calls, collected,
                   intr_log>>

\* the round with the counter skipped whenever ipmitool gave nothing
TmRapl_SkippedAfterIpmiFailure ==
    /\ pc = "tm_180"
    /\ \E r \in env.rapl :
         /\ rapl_energy' = IF ipmi_power = None THEN None ELSE r
         /\ obs' = Some([Val(obs) EXCEPT !.rapl = Some(r)])
         /\ pc' = IF ipmi_power # None /\ r # None THEN "crp_138" ELSE "tm_185"
    /\ rapl_power' = None
    /\ UNCHANGED <<obj_vars, world_vars, phase, pending, run_locals, timestamp,
                   ipmi_power, crp_locals, calls, collected, intr_log>>

\* the energy read with a failed read forgetting the estimator's last sample
TmRapl_ResetsOnFailure ==
    /\ pc = "tm_180"
    /\ \E r \in env.rapl :
         /\ rapl_energy' = r
         /\ obs' = Some([Val(obs) EXCEPT !.rapl = Some(r)])
         /\ pc' = IF r # None THEN "crp_138" ELSE "tm_185"
         /\ IF r = None
            THEN prev_rapl_energy' = None /\ prev_rapl_time' = None
            ELSE UNCHANGED <<prev_rapl_energy, prev_rapl_time>>
    /\ rapl_power' = None
    /\ UNCHANGED <<running, measurements, world_vars, phase, pending, run_locals,
                   timestamp, ipmi_power, crp_locals, calls, collected, intr_log>>

\* rapl_energy = self.read_rapl_energy(); rapl_power = None; the estimator
\* is called only when the read gave a value
TmRapl ==
    /\ pc = "tm_180"
    /\ \E r \in env.rapl :
         /\ rapl_energy' = r
         /\ obs' = Some([Val(obs) EXCEPT !.rapl = Some(r)])
         /\ pc' = IF r # None THEN "crp_138" ELSE "tm_185"
    /\ rapl_power' = None
    /\ UNCHANGED <<obj_vars, world_vars, phase, pending, run_locals, timestamp,
                   ipmi_power, crp_locals, calls, collected, intr_log>>

\* calculate_rapl_power, entered: the test for a first reading, and the deltas
CrpEnter ==
    /\ pc = "crp_138"
    /\ IF prev_rapl_energy = None
       THEN /\ pc' = "crp_140"
            /\ UNCHANGED crp_locals
       ELSE /\ energy_delta_uj' = Some(EnergyDelta(Val(prev_rapl_energy), Val(rapl_energy)))
            /\ time_delta_s' = Some(TimeDelta(Val(prev_rapl_time), Val(timestamp)))
            /\ pc' = "crp_156"
    /\ UNCHANGED <<obj_vars, world_vars, phase, pending, run_locals, tm_locals, hist_vars>>

\* self.prev_rapl_energy = energy_uj (first reading, or not)
CrpStoreEnergy ==
    /\ pc \in {"crp_140", "crp_156"}
    /\ prev_rapl_energy' = rapl_energy
    /\ pc' = IF pc = "crp_140" THEN "crp_141" ELSE "crp_157"
    /\ UNCHANGED <<prev_rapl_time, running, measurements, world_vars, phase, pending,
                   run_locals, tm_locals, crp_locals, hist_vars>>

\* self.prev_rapl_time = timestamp, and the return: None for a first reading
\* or a time delta <= 0, else power_w
CrpStoreTimeAndReturn ==
    /\ pc \in {"crp_141", "crp_157"}
    /\ prev_rapl_time' = timestamp
    /\ rapl_power' = IF pc = "crp_141" THEN None
                     ELSE PowerOrNone(Val(energy_delta_uj), Val(time_delta_s))
    /\ energy_delta_uj' = None
    /\ time_delta_s' = None
    /\ pc' = "tm_185"
    /\ UNCHANGED <<prev_rapl_energy, running, measurements, world_vars, phase, pending,
                   run_locals, timestamp, ipmi_power, rapl_energy, hist_vars>>

\* the measurement dict take_measurement returns
Measurement ==
    [timestamp |-> FormatTimestamp(Val(timestamp)),
     timestamp_unix |-> Val(timestamp),
     ipmi_watts |-> ipmi_power,
     rapl_pkg_watts |-> rapl_power,
     rapl_energy_uj |-> rapl_energy]

\* the return with a tick whose two reads both failed left out of the buffer
TmReturn_FailedRoundSkipped ==
    /\ pc = "tm_185"
    /\ IF phase = "priming"
       THEN /\ initial' = Some(Measurement)
            /\ pc' = "loop_249"
            /\ UNCHANGED <<measurement, collected>>
       ELSE /\ measurement' = Some(Measurement)
            /\ collected' = Append(collected, Measurement)
            /\ pc' = IF ipmi_power = None /\ rapl_energy = None
                     THEN "sleep_264" ELSE "append_256"
            /\ UNCHANGED initial
    /\ timestamp' = None
    /\ ipmi_power' = None
    /\ rapl_energy' = None
    /\ rapl_power' = None
    /\ obs' = None
    /\ UNCHANGED <<obj_vars, world_vars, phase, pending, start_time, measurement_count,
                   crp_locals, calls, intr_log>>

\* the return with the priming round's sample appended to the buffer as well
TmReturn_PrimingAppended ==
    /\ pc = "tm_185"
    /\ IF phase = "priming"
       THEN /\ initial' = Some(Measurement)
            /\ measurements' = Append(measurements, Measurement)
            /\ pc' = "loop_249"
            /\ UNCHANGED <<measurement, collected>>
       ELSE /\ measurement' = Some(Measurement)
            /\ collected' = Append(collected, Measurement)
            /\ pc' = "append_256"
            /\ UNCHANGED <<initial, measurements>>
    /\ timestamp' = None
    /\ ipmi_power' = None
    /\ rapl_energy' = None
    /\ rapl_power' = None
    /\ obs' = None
    /\ UNCHANGED <<prev_rapl_energy, prev_rapl_time, running, world_vars, phase, pending,
                   start_time, measurement_count, crp_locals, calls, intr_log>>

\* return measurement: to "initial = ..." of the priming round, or to
\* "measurement = ..." of a tick
TmReturn ==
    /\ pc = "tm_185"
    /\ IF phase = "priming"
       THEN /\ initial' = Some(Measurement)
            /\ pc' = "loop_249"
            /\ UNCHANGED <<measurement, collected>>
       ELSE /\ measurement' = Some(Measurement)
            /\ collected' = Append(collected, Measurement)
            /\ pc' = "append_256"
            /\ UNCHANGED initial
    /\ timestamp' = None
    /\ ipmi_power' = None
    /\ rapl_energy' = None
    /\ rapl_power' = None
    /\ obs' = None
    /\ UNCHANGED <<obj_vars, world_vars, phase, pending, start_time, measurement_count,
                   crp_locals, calls, intr_log>>

\* ------------------------------------------------------------------------
\* PowerMonitor.save_to_csv

Header == <<"timestamp", "timestamp_unix", "ipmi_watts", "rapl_pkg_watts", "rapl_energy_uj">>

\* one row of csv.DictWriter: the fields in the order of fieldnames, each as
\* its text; the text of None is the empty string <<>>, that of v is <<v>>
CsvRow(m) ==
    <<Some(m.timestamp), Some(m.timestamp_unix), m.ipmi_watts, m.rapl_pkg_watts,
      m.rapl_energy_uj>>

\* writerows with the last measurement left out
CsvRows_LastDropped(ms) == [i \in 1..(Len(ms) - 1) |-> CsvRow(ms[i])]

\* writer.writerows(self.measurements)
CsvRows(ms) == [i \in 1..Len(ms) |-> CsvRow(ms[i])]

\* ------------------------------------------------------------------------
\* PowerMonitor.run

\* "if duration": a duration was given and is not 0
DurationGiven == cfg.duration # None /\ Val(cfg.duration) # 0

\* self.running = True; start_time = time.time(); measurement_count = 0;
\* then the call of the priming round
RunStart ==
    /\ pc = "run_227"
    /\ running' = TRUE
    /\ start_time' = Some(now)
    /\ measurement_count' = Some(0)
    /\ phase' = "priming"
    /\ pc' = "tm_173"
    /\ UNCHANGED <<prev_rapl_energy, prev_rapl_time, measurements, world_vars, pending,
                   initial, measurement, tm_locals, crp_locals, hist_vars>>

\* while self.running: if duration and elapsed >= duration: break; else the
\* call of the tick's round
LoopTest ==
    /\ pc = "loop_249"
    /\ ~DurationGiven => now < MaxClock
    /\ IF ~running \/ (DurationGiven /\ now - Val(start_time) >= Val(cfg.duration))
       THEN /\ pc' = "finally_270"
            /\ phase' = "none"
       ELSE /\ pc' = "tm_173"
            /\ phase' = "tick"
    /\ UNCHANGED <<obj_vars, world_vars, pending, run_locals, tm_locals, crp_locals,
                   hist_vars>>

\* self.measurements.append(measurement)
AppendMeasurement ==
    /\ pc = "append_256"
    /\ measurements' = Append(measurements, Val(measurement))
    /\ pc' = "count_257"
    /\ UNCHANGED <<prev_rapl_energy, prev_rapl_time, running, world_vars, phase, pending,
                   run_locals, tm_locals, crp_locals, hist_vars>>

\* measurement_count += 1 (and the line printed when verbose)
CountMeasurement ==
    /\ pc = "count_257"
    /\ measurement_count' = Some(Val(measurement_count) + 1)
    /\ pc' = "sleep_264"
    /\ UNCHANGED <<obj_vars, world_vars, phase, pending, start_time, initial, measurement,
                   tm_locals, crp_locals, hist_vars>>

\* time.sleep(self.interval)
Sleep ==
    /\ pc = "sleep_264"
    /\ now' = now + cfg.interval
    /\ pc' = "loop_249"
    /\ UNCHANGED <<obj_vars, cfg, iface, env, file, exit_code, phase, pending, run_locals,
                   tm_locals, crp_locals, hist_vars>>

\* except KeyboardInterrupt: the message is printed
ExceptKeyboardInterrupt ==
    /\ pc = "except_266"
    /\ pc' = "finally_270"
    /\ UNCHANGED <<obj_vars, world_vars, phase, pending, run_locals, tm_locals, crp_locals,
                   hist_vars>>

\* finally: self.running = False, the summary, and "if self.output_file"
Finally ==
    /\ pc = "finally_270"
    /\ running' = FALSE
    /\ pc' = IF cfg.output_file THEN "save_204" ELSE "run_end"
    /\ UNCHANGED <<prev_rapl_energy, prev_rapl_time, measurements, world_vars, phase,
                   pending, run_locals, tm_locals, crp_locals, hist_vars>>

\* save_to_csv: nothing is done without measurements; else the file is
\* opened for writing, which empties it
SaveOpen ==
    /\ pc = "save_204"
    /\ IF measurements = <<>>
       THEN /\ pc' = "run_end"
            /\ file' = file
       ELSE /\ pc' = "save_212"
            /\ file' = Some(<<>>)
    /\ UNCHANGED <<obj_vars, cfg, iface, env, now, exit_code, phase, pending, run_locals,
                   tm_locals, crp_locals, hist_vars>>

\* writer.writeheader()
SaveHeader ==
    /\ pc = "save_212"
    /\ file' = Some(Append(Val(file), Header))
    /\ pc' = "save_213"
    /\ UNCHANGED <<obj_vars, cfg, iface, env, now, exit_code, phase, pending, run_locals,
                   tm_locals, crp_locals, hist_vars>>

\* writer.writerows(self.measurements), and the file is closed
SaveRows ==
    /\ pc = "save_213"
    /\ file' = Some(Val(file) \o CsvRows(measurements))
    /\ pc' = "run_end"
    /\ UNCHANGED <<obj_vars, cfg, iface, env, now, exit_code, phase, pending, run_locals,
                   tm_locals, crp_locals, hist_vars>>

\* the end of the finally block: a waiting exception goes on to main and
\* ends the process; else run returns, main returns 0 and sys.exit(0)
RunEnd ==
    /\ pc = "run_end"
    /\ exit_code' = IF pending THEN Some(ExitInterrupted) ELSE Some(0)
    /\ pending' = FALSE
    /\ pc' = "exited"
    /\ UNCHANGED <<obj_vars, cfg, iface, env, now, file, phase, run_locals, tm_locals,
                   crp_locals, hist_vars>>

\* ------------------------------------------------------------------------
\* The external interrupt: SIGINT raises KeyboardInterrupt in the main
\* thread between any two steps of run

\* statements of the priming round and before it: no try block is around them
PrimingPcs == {"run_227"} \cup
    (IF phase = "priming"
     THEN {"tm_173", "tm_177", "tm_180", "crp_138", "crp_140", "crp_141", "crp_156",
           "crp_157", "tm_185"}
     ELSE {})

\* statements inside "try:", the rounds called from it included
TryPcs == {"loop_249", "append_256", "count_257", "sleep_264"} \cup
    (IF phase = "tick"
     THEN {"tm_173", "tm_177", "tm_180", "crp_138", "crp_140", "crp_141", "crp_156",
           "crp_157", "tm_185"}
     ELSE {})

\* statements of the finally block, save_to_csv included
FinallyPcs == {"finally_270", "save_204", "save_212", "save_213", "run_end"}

\* the frames of take_measurement and calculate_rapl_power are dropped
DropFrames ==
    /\ obs' = None
    /\ timestamp' = None
    /\ ipmi_power' = None
    /\ rapl_energy' = None
    /\ rapl_power' = None
    /\ energy_delta_uj' = None
    /\ time_delta_s' = None

\* KeyboardInterrupt outside the try statement: nothing catches it
InterruptUncaught ==
    /\ pc \in PrimingPcs \cup FinallyPcs
    /\ intr_log' = Append(intr_log, IF pc \in PrimingPcs THEN "priming" ELSE "finally")
    /\ \/ /\ pc = "save_213"
          /\ \E k \in 0..Len(CsvRows(measurements)) :
               file' = Some(Val(file) \o SubSeq(CsvRows(measurements), 1, k))
       \/ /\ pc # "save_213"
          /\ file' = file
    /\ DropFrames
    /\ exit_code' = Some(ExitInterrupted)
    /\ pending' = FALSE
    /\ pc' = "exited"
    /\ UNCHANGED <<obj_vars, cfg, iface, env, now, phase, run_locals, calls, collected>>

\* KeyboardInterrupt inside the try block: the except clause takes it
InterruptInTry ==
    /\ pc \in TryPcs
    /\ intr_log' = Append(intr_log, "sampling")
    /\ DropFrames
    /\ pc' = "except_266"
    /\ UNCHANGED <<obj_vars, world_vars, phase, pending, run_locals, calls, collected>>

\* KeyboardInterrupt inside the except clause: the finally block runs, then
\* the exception leaves run
InterruptInExcept ==
    /\ pc = "except_266"
    /\ intr_log' = Append(intr_log, "except")
    /\ pending' = TRUE
    /\ pc' = "finally_270"
    /\ UNCHANGED <<obj_vars, world_vars, phase, run_locals, tm_locals, crp_locals, calls,
                   obs, collected>>

Interrupt == InterruptUncaught \/ InterruptInTry \/ InterruptInExcept

\* ------------------------------------------------------------------------
\* The program

Next ==
    \/ CheckInterfaces
    \/ RunStart
    \/ TmTimestamp
    \/ TmIpmi
    \/ TmRapl
    \/ CrpEnter
    \/ CrpStoreEnergy
    \/ CrpStoreTimeAndReturn
    \/ TmReturn
    \/ LoopTest
    \/ AppendMeasurement
    \/ CountMeasurement
    \/ Sleep
    \/ ExceptKeyboardInterrupt
    \/ Finally
    \/ SaveOpen
    \/ SaveHeader
    \/ SaveRows
    \/ RunEnd
    \/ Interrupt

Spec == Init /\ [][Next]_vars

TimedSpec == TimedInit /\ [][Next]_vars

\* ------------------------------------------------------------------------
\* The estimator called directly on a fresh monitor

\* energies a direct call is given (model units)
EnergyInputs == {0, 1, MaxCounter - 1, MaxCounter, 2 * MaxCounter, 2 * MaxCounter + 1}

EstInit ==
    /\ Fresh
    /\ cfg = [duration |-> None, interval |-> TicksPerSecond, output_file |-> FALSE]
    /\ iface = [ipmitool |-> "found", rapl_exists |-> TRUE, rapl_readable |-> TRUE]
    /\ env = QuietEnv

EstCall ==
    /\ Len(calls) < MaxCalls
    /\ \E e \in EnergyInputs, t \in 0..MaxTimestamp :
         LET r == calculate_rapl_power(prev_rapl_energy, prev_rapl_time, e, t)
         IN  /\ prev_rapl_energy' = r.prev_energy
             /\ prev_rapl_time' = r.prev_time
             /\ calls' = Append(calls, [energy |-> e, timestamp |-> t, ret |-> r.ret])
    /\ UNCHANGED <<running, measurements, world_vars, ctl_vars, run_locals,
                   tm_locals, crp_locals, obs, collected, intr_log>>

EstNext == EstCall

EstSpec == EstInit /\ [][EstNext]_vars

\* ------------------------------------------------------------------------
\* Claims about the estimator, under EstSpec

\* calls 1..i have strictly increasing timestamps and never decreasing energies
Monotone(i) ==
    \A j \in 2..i : /\ calls[j].timestamp > calls[j-1].timestamp
                    /\ calls[j].energy >= calls[j-1].energy

\* (de / dt) / 1,000,000 watts, de in energy units and dt > 0 in clock ticks
WattsOf(de, dt) == Frac(de * ScaleNum, dt * ScaleDen)

\* C1: on a fresh monitor, in a sequence of calls whose timestamps strictly
\* increase and whose energies never decrease, every call after the first
\* returns exactly (energy - previous energy) / (timestamp - previous
\* timestamp) / 1,000,000, the previous sample being the preceding call's.
C1_ExactPower ==
    \A i \in 2..Len(calls) :
        Monotone(i) =>
            calls[i].ret = Some(WattsOf(calls[i].energy - calls[i-1].energy,
                                        calls[i].timestamp - calls[i-1].timestamp))

\* three monotone calls, the energy unchanged over the last two
C1_Witness ==
    /\ Len(calls) = 3
    /\ Monotone(3)
    /\ calls[2].energy > calls[1].energy
    /\ calls[3].energy = calls[2].energy
    /\ calls[2].ret # None
    /\ calls[3].ret = Some([num |-> 0, den |-> 1])

\* C2: for consecutive samples (e1, t1), (e2, t2) with e2 < e1 and t2 > t1,
\* the call adds 2^32 to the energy delta and returns a strictly positive
\* power equal to (e2 + 2^32 - e1) / (t2 - t1) / 1,000,000.
C2_RolloverPositive ==
    \A i \in 2..Len(calls) :
        (calls[i].energy < calls[i-1].energy /\ calls[i].timestamp > calls[i-1].timestamp) =>
            /\ calls[i].ret = Some(WattsOf(calls[i].energy + MaxCounter - calls[i-1].energy,
                                           calls[i].timestamp - calls[i-1].timestamp))
            /\ Val(calls[i].ret).num > 0

\* C3: the first call on a fresh estimator state returns absent for every
\* input and stores that input as the previous sample.
C3_FirstCallAbsent ==
    /\ Len(calls) >= 1 => calls[1].ret = None
    /\ Len(calls) = 1 => /\ prev_rapl_energy = Some(calls[1].energy)
                         /\ prev_rapl_time = Some(calls[1].timestamp)

\* a first call with a non-zero energy and a non-zero timestamp has been made
C3_Witness ==
    /\ Len(calls) = 1
    /\ calls[1].energy = MaxCounter
    /\ calls[1].timestamp = MaxTimestamp
    /\ calls[1].ret = None

\* C4: after every completed call, whatever it returned, prev_rapl_energy is
\* the call's energy and prev_rapl_time its timestamp: the state is the last
\* sample passed, also after repeated absent results.
C4_StateIsLastSample ==
    Len(calls) >= 1 =>
        /\ prev_rapl_energy = Some(calls[Len(calls)].energy)
        /\ prev_rapl_time = Some(calls[Len(calls)].timestamp)

\* two absent results in a row after the first call: a zero, then a negative
\* time delta, with the energy changing each time
C4_Witness ==
    /\ Len(calls) = 3
    /\ calls[2].timestamp = calls[1].timestamp
    /\ calls[3].timestamp < calls[2].timestamp
    /\ calls[2].energy # calls[1].energy
    /\ calls[3].energy # calls[2].energy
    /\ calls[2].ret = None
    /\ calls[3].ret = None

\* ------------------------------------------------------------------------
\* Claims about a run, under Spec (C7 under TimedSpec)

\* the output file holds the header and one row per sample of ms, in order
FileHolds(ms) ==
    /\ file # None
    /\ Len(Val(file)) = Len(ms) + 1
    /\ Val(file)[1] = Header
    /\ \A i \in 1..Len(ms) : Val(file)[i + 1] = CsvRow(ms[i])

\* the run ended and main returned 0
Completed == pc = "exited" /\ exit_code = Some(0)

\* C5: when a run with an output path is interrupted at any point during
\* Sampling, the output file that results holds the header and one complete
\* row for every tick whose collection finished before the interrupt, in tick
\* order: no sample collected before the interrupt is lost.
C5_NoSampleLost ==
    (pc = "exited" /\ cfg.output_file /\ intr_log = <<"sampling">> /\ file # None)
        => FileHolds(collected)

\* what the estimator owes a round: a function of the previous sample, the
\* counter's value and the round's timestamp, not of the out-of-band read
ExpectedRaplPower(prev_energy, prev_time, energy, ts) ==
    IF energy = None \/ prev_energy = None THEN None
    ELSE IF ts - Val(prev_time) <= 0 THEN None
    ELSE LET d == Val(energy) - Val(prev_energy)
         IN  Some(WattsOf(IF d < 0 THEN d + MaxCounter ELSE d, ts - Val(prev_time)))

\* C6: within one take_measurement round the two sources are independent.
\* When the out-of-band read fails in any way, ipmi_watts is absent in the
\* sample while rapl_energy_uj and rapl_pkg_watts are what the counter read
\* and the estimator give, as with a successful out-of-band read; when the
\* counter read fails, rapl_energy_uj and rapl_pkg_watts are absent while
\* ipmi_watts is what the out-of-band read gave.
C6_SourcesIndependent ==
    pc = "tm_185" =>
        LET o == Val(obs)
            m == Measurement
        IN  /\ m.ipmi_watts = Val(o.ipmi).watts
            /\ Val(o.ipmi).kind # "ok" => m.ipmi_watts = None
            /\ m.rapl_energy_uj = Val(o.rapl)
            /\ m.rapl_pkg_watts =
                 ExpectedRaplPower(o.prev_energy, o.prev_time, Val(o.rapl), m.timestamp_unix)
            /\ Val(o.rapl) = None => (m.rapl_energy_uj = None /\ m.rapl_pkg_watts = None)

\* a tick whose out-of-band read timed out and whose sample carries an energy
\* and a power all the same
C6_Witness ==
    /\ pc = "tm_185"
    /\ phase = "tick"
    /\ Val(Val(obs).ipmi).kind = "timeout"
    /\ Measurement.ipmi_watts = None
    /\ Measurement.rapl_energy_uj # None
    /\ Measurement.rapl_pkg_watts # None

\* C7: an uninterrupted run with duration = 5 s and interval = 1 s appends
\* between 4 and 6 non-priming samples to the buffer before it stops, for
\* every per-round collection latency smaller than the interval.
C7_FourToSixSamples ==
    (/\ Completed
     /\ intr_log = <<>>
     /\ cfg.duration = Some(5 * TicksPerSecond)
     /\ cfg.interval = TicksPerSecond
     /\ \A r \in env.ipmi : r.latency < cfg.interval)
        => (Len(measurements) >= 4 /\ Len(measurements) <= 6)

C9_ExitCodes ==
    pc = "exited" =>
        IF InterfaceErrors = {} THEN exit_code = Some(0)
        ELSE exit_code # None /\ exit_code # Some(0)

\* C10: a run started with a --duration value, 0 included, is bounded: once
\* the elapsed time is at least the duration, the loop test starts no further
\* tick and the run goes on to Stopped.
C10_DurationBounds ==
    [][(/\ pc = "loop_249"
        /\ cfg.duration # None
        /\ now - Val(start_time) >= Val(cfg.duration))
          => pc' # "tm_173"]_vars

\* ------------------------------------------------------------------------
\* Claims settled later, under Spec (C16 under EstSpec)

\* the out-of-band tool is not found, or the counter's file does not exist
\* or cannot be read
InterfaceUnavailable ==
    \/ iface.ipmitool # "found"
    \/ ~iface.rapl_exists
    \/ ~iface.rapl_readable

\* C11: if at startup the out-of-band tool is not found, or the energy-counter
\* interface does not exist or is not readable, the program aborts with a
\* non-zero exit before the priming round: no collection round runs, the
\* estimator state stays absent, the buffer stays empty and no output file is
\* written.
C11_FatalBeforePriming ==
    InterfaceUnavailable =>
        /\ pc \in {"main", "exited"}
        /\ pc = "exited" => (exit_code # None /\ exit_code # Some(0))
        /\ phase = "none"
        /\ start_time = None
        /\ initial = None
        /\ collected = <<>>
        /\ prev_rapl_energy = None
        /\ prev_rapl_time = None
        /\ measurements = <<>>
        /\ file = None

\* the program has exited with status 1 because the counter's file, which
\* exists, could not be read, ipmitool being there
C11_Witness ==
    /\ pc = "exited"
    /\ exit_code = Some(1)
    /\ iface.ipmitool = "found"
    /\ iface.rapl_exists
    /\ ~iface.rapl_readable
    /\ cfg.output_file

C13_AlwaysFinalized ==
    /\ (pc = "exited" /\ start_time # None) =>
          /\ ~running
          /\ (cfg.output_file /\ measurements # <<>>) => FileHolds(measurements)
    /\ intr_log # <<>> =>
          pc \notin {"tm_173", "tm_177", "tm_180", "crp_138", "crp_140", "crp_141",
                     "crp_156", "crp_157", "tm_185", "append_256", "count_257",
                     "sleep_264", "loop_249"}

\* C14: the elapsed time compared against the duration is measured from the
\* start of Sampling, after the priming round has finished: at the first loop
\* test no time has elapsed, whatever the priming round took.
C14_ElapsedFromSamplingStart ==
    (pc = "loop_249" /\ phase = "priming" /\ intr_log = <<>>)
        => now - Val(start_time) = 0

\* C15: after each tick the loop suspends for max(0, interval - time spent
\* collecting that tick): the next loop test comes one interval after the
\* tick's start when collection took less than the interval, and with no
\* suspension when it took at least the interval.
C15_SleepsTheRemainder ==
    [][(pc = "sleep_264" /\ pc' = "loop_249") =>
          LET tick_start == Val(measurement).timestamp_unix
              spent == now - tick_start
          IN  now' - now = (IF cfg.interval - spent > 0 THEN cfg.interval - spent ELSE 0)]_vars

\* C16: for every call of calculate_rapl_power with a previous sample present
\* and a time delta (timestamp - prev_rapl_time) that is zero or negative, the
\* call returns absent, no quotient being computed; a power value is returned
\* only when the time delta is strictly positive.
C16_NoPowerWithoutPositiveDelta ==
    \A i \in 2..Len(calls) :
        /\ calls[i].timestamp - calls[i-1].timestamp <= 0 => calls[i].ret = None
        /\ calls[i].ret # None => calls[i].timestamp - calls[i-1].timestamp > 0

\* a call with a negative time delta and a changed energy returned absent,
\* and the next call, one tick later, a power
C16_Witness ==
    /\ Len(calls) = 3
    /\ calls[2].timestamp < calls[1].timestamp
    /\ calls[2].energy > calls[1].energy
    /\ calls[2].ret = None
    /\ calls[3].timestamp = calls[2].timestamp + 1
    /\ calls[3].ret # None

\* C17: in every state of a run that the rest of the program can see, those
\* left by an external interrupt landing in the middle of an estimator call
\* included, prev_rapl_energy and prev_rapl_time are either both present or
\* both absent.  (The state between the two stores of an undisturbed call, and
\* the state of a process that has exited, are seen by nothing.)
C17_BothOrNeither ==
    pc \notin {"crp_141", "exited"} =>
        ((prev_rapl_energy = None) <=> (prev_rapl_time = None))

\* C18: the priming round's sample is never appended to the buffer: at every
\* point of a run the buffer holds exactly the samples of the Sampling ticks
\* completed so far, in tick order, and the priming round's lasting effect is
\* on the estimator state, so that the first Sampling tick with a successful
\* energy read and a positive time delta already carries a power value when
\* the priming energy read succeeded.
C18_PrimingOnlySeeds ==
    /\ Len(measurements) \in {Len(collected), Len(collected) - 1}
    /\ measurements = SubSeq(collected, 1, Len(measurements))
    /\ (pc = "loop_249" /\ phase = "priming") =>
          /\ measurements = <<>>
          /\ prev_rapl_energy = Val(initial).rapl_energy_uj
          /\ prev_rapl_time = (IF Val(initial).rapl_energy_uj = None THEN None
                               ELSE Some(Val(initial).timestamp_unix))
    /\ (/\ pc = "tm_185"
        /\ phase = "tick"
        /\ collected = <<>>
        /\ Val(initial).rapl_energy_uj # None
        /\ rapl_energy # None
        /\ Val(timestamp) > Val(initial).timestamp_unix) =>
          LET d == Val(rapl_energy) - Val(Val(initial).rapl_energy_uj)
          IN  rapl_power = Some(WattsOf(IF d < 0 THEN d + MaxCounter ELSE d,
                                        Val(timestamp) - Val(initial).timestamp_unix))

\* the first tick is about to return a sample with a positive power, computed
\* against the priming round's reading, and the buffer is still empty
C18_Witness ==
    /\ pc = "tm_185"
    /\ phase = "tick"
    /\ collected = <<>>
    /\ measurements = <<>>
    /\ Val(initial).rapl_energy_uj = Some(0)
    /\ rapl_energy = Some(1)
    /\ rapl_power # None
    /\ Val(rapl_power).num > 0

\* C19: the timestamp paired with an energy value handed to the estimator is
\* the clock value at the moment the energy counter was read: no time of the
\* round's out-of-band read lies between capturing the timestamp and reading
\* the counter.
C19_TimestampAtCounterRead ==
    pc = "crp_138" => Val(timestamp) = now

\* the samples taken so far in this run, the priming round's first
Taken == IF initial = None THEN <<>> ELSE <<Val(initial)>> \o collected

\* the positions in Taken of the samples whose energy read succeeded
GoodReads == {i \in 1..Len(Taken) : Taken[i].rapl_energy_uj # None}

\* the last sample whose energy read succeeded
LastGood == Taken[CHOOSE i \in GoodReads : \A j \in GoodReads : j <= i]

\* C20: a round whose energy read fails does not call the estimator and leaves
\* prev_rapl_energy and prev_rapl_time as they were at the start of the round;
\* the next round with a successful read computes its power from the last
\* successfully read sample, over the whole gap, and does not return absent
\* as a first call would.
C20_FailedReadKeepsState ==
    pc = "tm_185" =>
        /\ rapl_energy = None =>
              /\ rapl_power = None
              /\ prev_rapl_energy = Val(obs).prev_energy
              /\ prev_rapl_time = Val(obs).prev_time
              /\ energy_delta_uj = None
              /\ time_delta_s = None
        /\ (rapl_energy # None /\ GoodReads # {}) =>
              LET d == Val(rapl_energy) - Val(LastGood.rapl_energy_uj)
                  dt == Val(timestamp) - LastGood.timestamp_unix
              IN  rapl_power = (IF dt > 0
                                THEN Some(WattsOf(IF d < 0 THEN d + MaxCounter ELSE d, dt))
                                ELSE None)

\* a tick is about to return a power computed against the priming round's
\* reading, the energy read of the tick in between having failed
C20_Witness ==
    /\ pc = "tm_185"
    /\ phase = "tick"
    /\ Len(collected) = 1
    /\ collected[1].rapl_energy_uj = None
    /\ Val(initial).rapl_energy_uj # None
    /\ rapl_energy # None
    /\ rapl_power # None
    /\ prev_rapl_time = timestamp

=============================================================================
